---- MODULE Spec2Model ----
(***************************************************************************)
(* GraphEx: a graph of typed task nodes (src/graphex.hpp) run on the ctpl  *)
(* worker pool (src/cptl.hpp).                                             *)
(*                                                                         *)
(* The state is the wiring of the nodes, the per-node counters and         *)
(* storage, the pool (queue, done flag, condition variable, workers) and   *)
(* the position of the main thread inside GraphEx::execute.                *)
(*                                                                         *)
(* thread::Executor and thread::Pool (src/thread_pool.hpp), which GraphEx  *)
(* does not use, have their own variables and their own specification.     *)
(***************************************************************************)
EXTENDS Integers, Sequences, FiniteSets, TLC

\* ------------------------------------------------------------- bounds
NumNodes == 3
MaxWorkers == 2
MaxCalls == 4
MaxCycles == 2
\* The number of tasks enqueued on a thread::Executor.
MaxTasks == 3

Nodes == 1..NumNodes
Workers == 1..MaxWorkers

\* ------------------------------------------------------------- node types
\* A node's static type Node<ReturnType, Args...>: the kind of its result
\* ("void", "int" copyable, "uptr" move-only) and the kinds of its arguments.
MaxArity == 2
Slots == 1..MaxArity

\* Three families of signatures, by node number n:
\*   1: int(), int(int), int(int, int), .. (copyable results)
\*   2: unique_ptr(), unique_ptr(unique_ptr), .. (move-only results)
\*   3: void(), int(), void(int), int(), ..  (unit and copyable results)
NumFamilies == 3
MaxFeeds == 1
\* The queueSize argument of thread_pool(nThreads, queueSize).
queueSize == 2
Min(a, b) == IF a < b THEN a ELSE b
Signature(k, n) ==
    IF k = 1 THEN [ret |-> "int",
                   params |-> [s \in 1..Min(n - 1, MaxArity) |-> "int"]]
    ELSE IF k = 2 THEN [ret |-> "uptr",
                        params |-> [s \in 1..Min(n - 1, 1) |-> "uptr"]]
    ELSE IF n % 2 = 0 THEN [ret |-> "int", params |-> << >>]
    ELSE [ret |-> "void", params |-> [s \in 1..Min(n - 1, 1) |-> "int"]]


\* Every result type taken for copyable.
is_copy_constructible_always(t) == TRUE

\* std::is_copy_constructible<ReturnType>
is_copy_constructible(t) == t = "int"

\* ------------------------------------------------------------- values
\* A value is a tuple: << >> is the value-initialised element of the argument
\* tuple (int 0, a null unique_ptr) and also a moved-from unique_ptr; the
\* result of node n's job applied to a1..ak is the term <<n, a1, .., ak>>.
Nil == << >>

VARIABLES
    sig,                 \* template parameters of each node
    job,                 \* Node::job: which callable, and whether it throws
    child_tasks,         \* value-carrying callbacks: <<child, slot>>
    no_arg_child_tasks,  \* no-arg callbacks: child
    next_nodes,          \* BaseNode::next_nodes
    parentCount,
    pendingCount,        \* size_t counter, kept as its offset from zero
    parentEnqueued,
    args,                \* the argument tuple, by slot
    result,              \* std::optional<ReturnType>: << >> or <<v>>
    validResult,
    is_output,
    input_nodes,         \* GraphEx::_input_nodes
    q,                   \* thread_pool::q
    isDone,
    nWaiting,
    threads,             \* thread_pool::threads.size()
    wk,                  \* each worker thread's position and locals
    main,                \* the main thread's position and locals in execute()
    answer,              \* what the last has_cycle() / collect() call returned
    cycle,               \* number of execute() calls started so far
    hist,                \* per execute() call: what each node's thunk did
    tasks_,              \* thread::Pool::tasks_: the tasks, by number
    stopped_,            \* thread::Pool::stopped_
    threads_,            \* thread::Pool::threads_: each thread's position
    futures_,            \* thread::Executor::futures_
    shared_state,        \* the state a packaged_task shares with its future
    callables,           \* what each enqueued callable does: TRUE when it throws
    caller               \* the thread that calls the Executor: its position

nodeVars == <<sig, job, child_tasks, no_arg_child_tasks, next_nodes, parentCount,
              pendingCount, parentEnqueued, args, result, validResult, is_output>>
poolVars == <<q, isDone, nWaiting, threads, wk>>
executorVars == <<tasks_, stopped_, threads_, futures_, shared_state,
                  callables, caller>>
vars == <<nodeVars, input_nodes, poolVars, main, answer, cycle, hist,
          executorVars>>

Arity(n) == Len(sig[n].params)

\* ------------------------------------------------------------- construction
\* The job of node n applied to the argument values a (a sequence).
apply_job(n, a) ==
    [i \in 1..(Arity(n) + 1) |-> IF i = 1 THEN job[n].id ELSE a[i - 1]]

tuple_size(s) == Len(s.params)

Ans(op, n, out, v) == [op |-> op, node |-> n, out |-> out, val |-> v]
NoAnswer == Ans("none", 0, "none", Nil)

WorkerInit == [pc |-> "pop", node |-> 0, idx |-> 0, a |-> << >>, pend |-> 0]
MainInit == [pc |-> "idle", processed |-> {}, qu |-> << >>, nxt |-> 0, i |-> 0,
             fresh |-> FALSE]
HistInit == [n \in Nodes |-> [begun |-> 0, ended |-> 0, done |-> 0,
                              produced |-> << >>, pushed |-> 0, got |-> {},
                              zeroed |-> 0, threw |-> 0, fed |-> << >>,
                              fedin |-> << >>]]

\* The nodes and the GraphEx after construction, the jobs of the nodes of T
\* being callables that throw.
InitNodes(T) ==
    /\ sig \in {[n \in Nodes |-> Signature(k, n)] : k \in 1..NumFamilies}
    /\ job = [n \in Nodes |-> [id |-> n, throws |-> n \in T]]
    /\ child_tasks = [n \in Nodes |-> << >>]
    /\ no_arg_child_tasks = [n \in Nodes |-> << >>]
    /\ next_nodes = [n \in Nodes |-> << >>]
    /\ parentCount = [n \in Nodes |-> tuple_size(sig[n])]
    /\ pendingCount = [n \in Nodes |-> tuple_size(sig[n])]
    /\ parentEnqueued = [n \in Nodes |-> 0]
    /\ args = [n \in Nodes |-> [s \in 1..tuple_size(sig[n]) |-> Nil]]
    /\ result = [n \in Nodes |-> << >>]
    /\ validResult = [n \in Nodes |-> FALSE]
    /\ is_output = [n \in Nodes |-> FALSE]
    /\ input_nodes = << >>
    /\ q = << >>
    /\ isDone = FALSE
    /\ nWaiting = 0
    /\ threads \in 1..MaxWorkers
    /\ wk = [w \in Workers |-> IF w <= threads THEN WorkerInit
                               ELSE [WorkerInit EXCEPT !.pc = "none"]]
    /\ main = MainInit
    /\ answer = NoAnswer
    /\ cycle = 0
    /\ hist = HistInit

\* No thread::Executor has been constructed.
NoExecutor ==
    /\ tasks_ = << >>
    /\ stopped_ = FALSE
    /\ threads_ = [w \in Workers |-> [pc |-> "none", task |-> 0]]
    /\ futures_ = << >>
    /\ shared_state = [t \in 1..MaxTasks |-> "none"]
    /\ callables = [t \in 1..MaxTasks |-> FALSE]
    /\ caller = [pc |-> "none", n |-> 0, i |-> 0, last |-> "none"]

\* The state after construction, the jobs of the nodes of T being callables
\* that throw.
InitJobs(T) == InitNodes(T) /\ NoExecutor

Init == InitJobs({})

\* The nodes int(), int(int), int(int, int).
InitInt == Init /\ sig = [n \in Nodes |-> Signature(1, n)]

\* One of the jobs throws.
InitThrow == \E n \in Nodes : InitJobs({n})

\* ------------------------------------------------------------- wiring
RECURSIVE SumLen(_, _)
SumLen(f, n) == IF n = 0 THEN 0 ELSE Len(f[n]) + SumLen(f, n - 1)

\* The graph is wired before the first execute().
Wiring == main.pc = "idle" /\ cycle = 0
\* At most MaxCalls wiring calls take effect.
CallBudget ==
    SumLen(next_nodes, NumNodes) + Len(input_nodes)
        + Cardinality({n \in Nodes : is_output[n]}) < MaxCalls

\* Node::add_child(SubscribeCallback): TRUE when the call throws.
add_child_never_throws(parent) == FALSE

add_child_throws(parent) ==
    /\ ~is_copy_constructible(sig[parent].ret)
    /\ \/ Len(child_tasks[parent]) > 0
       \/ is_output[parent]

\* The two std::logic_error of add_child, by their what().
FanOutViolation == "logic_error: more than 1 child process"
OutputConflict == "logic_error: marked as output"

\* The first test of add_child is the one on child_tasks.size().
add_child_error_output_first(parent) ==
    IF is_output[parent] THEN OutputConflict ELSE FanOutViolation

add_child_error(parent) ==
    IF Len(child_tasks[parent]) > 0 THEN FanOutViolation ELSE OutputConflict

\* set_parent<idx> with the downstream node recorded before add_child is tried.
set_parent_idx_push_first(child, idx, parent) ==
    /\ Wiring
    /\ CallBudget
    /\ idx \in 1..Arity(child)
    /\ sig[parent].ret = sig[child].params[idx]
    /\ next_nodes' = [next_nodes EXCEPT ![parent] = Append(@, child)]
    /\ IF add_child_throws(parent)
       THEN /\ answer' = Ans("set_parent", 0, add_child_error(parent), Nil)
            /\ UNCHANGED child_tasks
       ELSE /\ answer' = NoAnswer
            /\ child_tasks' = [child_tasks EXCEPT
                                 ![parent] = Append(@, <<child, idx>>)]
    /\ UNCHANGED <<executorVars, sig, job, no_arg_child_tasks, parentCount, pendingCount,
                   parentEnqueued, args, result, validResult, is_output,
                   input_nodes, poolVars, main, cycle, hist>>

\* child.set_parent<idx>(parent); it compiles only when the parent returns a
\* value that slot idx of the child accepts.
set_parent_idx(child, idx, parent) ==
    /\ Wiring
    /\ CallBudget
    /\ idx \in 1..Arity(child)
    /\ sig[parent].ret = sig[child].params[idx]
    /\ IF add_child_throws(parent)
       THEN /\ answer' = Ans("set_parent", 0, add_child_error(parent), Nil)
            /\ UNCHANGED <<child_tasks, next_nodes>>
       ELSE /\ answer' = NoAnswer
            /\ child_tasks' = [child_tasks EXCEPT
                                 ![parent] = Append(@, <<child, idx>>)]
            /\ next_nodes' = [next_nodes EXCEPT ![parent] = Append(@, child)]
    /\ UNCHANGED <<executorVars, sig, job, no_arg_child_tasks, parentCount, pendingCount,
                   parentEnqueued, args, result, validResult, is_output,
                   input_nodes, poolVars, main, cycle, hist>>

\* set_parent(parent) without add_parent_count.
set_parent_without_count(child, parent) ==
    /\ Wiring
    /\ CallBudget
    /\ answer' = NoAnswer
    /\ no_arg_child_tasks' = [no_arg_child_tasks EXCEPT
                                ![parent] = Append(@, child)]
    /\ next_nodes' = [next_nodes EXCEPT ![parent] = Append(@, child)]
    /\ UNCHANGED <<executorVars, sig, job, child_tasks, parentCount, pendingCount,
                   parentEnqueued, args, result, validResult, is_output,
                   input_nodes, poolVars, main, cycle, hist>>

\* child.set_parent(parent): add_parent_count, then the no-arg callback.
set_parent(child, parent) ==
    /\ Wiring
    /\ CallBudget
    /\ answer' = NoAnswer
    /\ parentCount' = [parentCount EXCEPT ![child] = @ + 1]
    /\ pendingCount' = [pendingCount EXCEPT ![child] = @ + 1]
    /\ no_arg_child_tasks' = [no_arg_child_tasks EXCEPT
                                ![parent] = Append(@, child)]
    /\ next_nodes' = [next_nodes EXCEPT ![parent] = Append(@, child)]
    /\ UNCHANGED <<executorVars, sig, job, child_tasks, parentEnqueued, args, result,
                   validResult, is_output, input_nodes, poolVars, main, cycle,
                   hist>>

mark_as_output(n) ==
    /\ Wiring
    /\ CallBudget
    /\ answer' = NoAnswer
    /\ is_output' = [is_output EXCEPT ![n] = TRUE]
    /\ UNCHANGED <<executorVars, sig, job, child_tasks, no_arg_child_tasks, next_nodes,
                   parentCount, pendingCount, parentEnqueued, args, result,
                   validResult, input_nodes, poolVars, main, cycle, hist>>

register_input_node(n) ==
    /\ Wiring
    /\ CallBudget
    /\ answer' = NoAnswer
    /\ input_nodes' = Append(input_nodes, n)
    /\ UNCHANGED <<executorVars, nodeVars, poolVars, main, cycle, hist>>

\* ------------------------------------------------------------- has_cycle
RECURSIVE cycle_dfs(_, _), cycle_dfs_loop(_, _, _)

\* The dfs lambda of has_cycle; col maps a node to "none" (not in the map),
\* "true" or "false". Returns the answer and the map as the call leaves it.
cycle_dfs(current_node, col) ==
    LET r == cycle_dfs_loop(current_node, 1,
                            [col EXCEPT ![current_node] = "true"])
    IN IF r.found THEN r
       ELSE [found |-> FALSE, col |-> [r.col EXCEPT ![current_node] = "false"]]

cycle_dfs_loop(current_node, i, col) ==
    IF i > Len(next_nodes[current_node]) THEN [found |-> FALSE, col |-> col]
    ELSE LET next_node == next_nodes[current_node][i] IN
         IF col[next_node] = "none"
         THEN LET r == cycle_dfs(next_node, col) IN
              IF r.found THEN r
              ELSE cycle_dfs_loop(current_node, i + 1, r.col)
         ELSE IF col[next_node] = "true"
              THEN [found |-> TRUE, col |-> col]
              ELSE cycle_dfs_loop(current_node, i + 1, col)

\* The loop over the input nodes returning after its first pass.
has_cycle_first_input(i) ==
    /\ i <= Len(input_nodes)
    /\ cycle_dfs(input_nodes[i], [n \in Nodes |-> "none"]).found

RECURSIVE has_cycle_from(_)
\* The loop of has_cycle over _input_nodes, from the i-th on.
has_cycle_from(i) ==
    IF i > Len(input_nodes) THEN FALSE
    ELSE IF cycle_dfs(input_nodes[i], [n \in Nodes |-> "none"]).found THEN TRUE
         ELSE has_cycle_from(i + 1)

has_cycle == has_cycle_from(1)

\* The call executor.has_cycle(), which changes nothing and returns the answer.
has_cycle_call ==
    /\ main.pc = "idle"
    /\ answer' = Ans("has_cycle", 0, IF has_cycle THEN "true" ELSE "false", Nil)
    /\ UNCHANGED <<executorVars, nodeVars, input_nodes, poolVars, main, cycle, hist>>

\* ------------------------------------------------------------- reset
RECURSIVE reset_dfs(_, _), reset_dfs_loop(_, _, _)

\* The dfs lambda of GraphEx::reset: the set vis after visiting current_node.
reset_dfs(current_node, vis) ==
    reset_dfs_loop(current_node, 1, vis \cup {current_node})

reset_dfs_loop(current_node, i, vis) ==
    IF i > Len(next_nodes[current_node]) THEN vis
    ELSE LET next_node == next_nodes[current_node][i] IN
         reset_dfs_loop(current_node, i + 1,
                        IF next_node \notin vis THEN reset_dfs(next_node, vis)
                        ELSE vis)

RECURSIVE reset_from(_, _)
reset_from(i, vis) ==
    IF i > Len(input_nodes) THEN vis
    ELSE reset_from(i + 1, IF input_nodes[i] \notin vis
                           THEN reset_dfs(input_nodes[i], vis) ELSE vis)

\* reset() calling Node::reset on the input nodes only.
reset_visited_inputs_only == {input_nodes[i] : i \in 1..Len(input_nodes)}

\* The nodes on which GraphEx::reset calls Node::reset.
reset_visited == reset_from(1, {})

\* GraphEx::reset; Node::reset on every visited node.
reset ==
    /\ main.pc = "idle"
    /\ LET vis == reset_visited IN
       /\ result' = [n \in Nodes |-> IF n \in vis THEN << >> ELSE result[n]]
       /\ pendingCount' = [n \in Nodes |-> IF n \in vis THEN parentCount[n]
                                           ELSE pendingCount[n]]
       /\ parentEnqueued' = [n \in Nodes |-> IF n \in vis THEN 0
                                             ELSE parentEnqueued[n]]
       /\ hist' = [n \in Nodes |-> IF n \in vis
                                    THEN [hist[n] EXCEPT !.fed = << >>]
                                    ELSE hist[n]]
    /\ answer' = Ans("reset", 0, "returned", Nil)
    /\ UNCHANGED <<executorVars, sig, job, child_tasks, no_arg_child_tasks, next_nodes,
                   parentCount, args, validResult, is_output, input_nodes,
                   poolVars, main, cycle>>

\* ------------------------------------------------------------- collect
\* collect() going to the optional without the test of _validResult.
collect_on_unchecked(n, valid, res) ==
    IF sig[n].ret = "void" THEN Ans("collect", n, "void", Nil)
    ELSE IF res = << >> THEN Ans("collect", n, "bad_optional_access", Nil)
    ELSE Ans("collect", n, "value", res[1])

\* What Node::collect does on node n holding the flag valid and the optional
\* res: the outcome and the value returned.
collect_on(n, valid, res) ==
    IF sig[n].ret = "void" THEN Ans("collect", n, "void", Nil)
    ELSE IF ~valid THEN Ans("collect", n, "NoResult", Nil)
    ELSE IF res = << >> THEN Ans("collect", n, "bad_optional_access", Nil)
    ELSE Ans("collect", n, "value", res[1])

collect_outcome(n) == collect_on(n, validResult[n], result[n])

\* n.collect(); a move-only result is moved out of the optional.
collect(n) ==
    /\ main.pc = "idle"
    /\ answer' = collect_outcome(n)
    /\ result' = IF answer'.out = "value" /\ ~is_copy_constructible(sig[n].ret)
                 THEN [result EXCEPT ![n] = <<Nil>>]
                 ELSE result
    /\ UNCHANGED <<executorVars, sig, job, child_tasks, no_arg_child_tasks, next_nodes,
                   parentCount, pendingCount, parentEnqueued, args, validResult,
                   is_output, input_nodes, poolVars, main, cycle, hist>>

\* ------------------------------------------------------------- execute
RECURSIVE parents_enqueued(_, _, _)
\* for (auto& k : nn) k->parent_enqueued();
parents_enqueued(pe, nn, i) ==
    IF i > Len(nn) THEN pe
    ELSE parents_enqueued([pe EXCEPT ![nn[i]] = @ + 1], nn, i + 1)

RECURSIVE enqueue_inputs_unprocessed(_, _)
\* The loop over _input_nodes passing over a node it has enqueued already.
enqueue_inputs_unprocessed(st, i) ==
    IF i > Len(input_nodes) THEN st
    ELSE LET v == input_nodes[i] IN
         IF v \in st.processed THEN enqueue_inputs_unprocessed(st, i + 1)
         ELSE enqueue_inputs_unprocessed(
                  [qu |-> Append(st.qu, v),
                   processed |-> st.processed \cup {v},
                   pe |-> parents_enqueued(st.pe, next_nodes[v], 1)],
                  i + 1)

RECURSIVE enqueue_inputs(_, _)
\* The first loop of GraphEx::execute, over _input_nodes.
enqueue_inputs(st, i) ==
    IF i > Len(input_nodes) THEN st
    ELSE LET v == input_nodes[i] IN
         enqueue_inputs([qu |-> Append(st.qu, v),
                         processed |-> st.processed \cup {v},
                         pe |-> parents_enqueued(st.pe, next_nodes[v], 1)],
                        i + 1)

\* A node taken for ready as soon as one of its parents is enqueued.
all_parent_enqueued_any(pe, n) == pe[n] >= 1

\* Node::all_parent_enqueued, on the counters pe.
all_parent_enqueued(pe, n) == pe[n] = parentCount[n]

RECURSIVE scan_next_nodes(_, _, _)
\* The inner loop of GraphEx::execute over nxt->next_nodes.
scan_next_nodes(st, nn, i) ==
    IF i > Len(nn) THEN st
    ELSE LET next_node == nn[i] IN
         IF next_node \notin st.processed /\ all_parent_enqueued(st.pe, next_node)
         THEN scan_next_nodes(
                  [qu |-> Append(st.qu, next_node),
                   processed |-> st.processed \cup {next_node},
                   pe |-> parents_enqueued(st.pe, next_nodes[next_node], 1)],
                  nn, i + 1)
         ELSE scan_next_nodes(st, nn, i + 1)

\* Every node that reset() visits is as wiring or reset() leaves it, but for
\* the arguments fed to it since. Recorded in main.fresh when execute() is
\* called.
AsReset ==
    \A n \in reset_visited :
        /\ pendingCount[n] = parentCount[n] - Len(hist[n].fed)
        /\ parentEnqueued[n] = 0
        /\ result[n] = << >>

\* execute() is called: the loop over the input nodes.
execute_begin ==
    /\ main.pc = "idle"
    /\ cycle < MaxCycles
    /\ LET st == enqueue_inputs([qu |-> << >>, processed |-> {},
                                 pe |-> parentEnqueued], 1) IN
       /\ parentEnqueued' = st.pe
       /\ main' = [pc |-> IF st.qu = << >> THEN "stop" ELSE "push",
                   processed |-> st.processed, qu |-> st.qu, nxt |-> 0, i |-> 0,
                   fresh |-> AsReset]
    /\ cycle' = cycle + 1
    /\ hist' = [n \in Nodes |-> [HistInit[n] EXCEPT !.fedin = hist[n].fed]]
    /\ answer' = NoAnswer
    /\ UNCHANGED <<executorVars, sig, job, child_tasks, no_arg_child_tasks, next_nodes,
                   parentCount, pendingCount, args, result, validResult,
                   is_output, input_nodes, poolVars>>

\* pool.push, first half: the thunk of qu.front() goes onto the queue.
execute_push ==
    /\ main.pc = "push"
    /\ LET nxt == Head(main.qu) IN
       /\ q' = Append(q, nxt)
       /\ main' = [main EXCEPT !.pc = "notify", !.qu = Tail(@), !.nxt = nxt]
       /\ hist' = [hist EXCEPT ![nxt].pushed = @ + 1]
    /\ UNCHANGED <<executorVars, nodeVars, input_nodes, isDone, nWaiting, threads, wk, answer,
                   cycle>>

\* The workers blocked in cv.wait.
Waiting == {w \in Workers : wk[w].pc = "waiting"}

\* pool.push, second half: cv.notify_one under the mutex; then the loop over
\* nxt->next_nodes.
execute_notify ==
    /\ main.pc = "notify"
    /\ \/ /\ Waiting = {}
          /\ wk' = wk
       \/ \E w \in Waiting : wk' = [wk EXCEPT ![w].pc = "woken"]
    /\ LET st == scan_next_nodes([qu |-> main.qu, processed |-> main.processed,
                                  pe |-> parentEnqueued],
                                 next_nodes[main.nxt], 1) IN
       /\ parentEnqueued' = st.pe
       /\ main' = [main EXCEPT !.pc = IF st.qu = << >> THEN "stop" ELSE "push",
                               !.qu = st.qu, !.processed = st.processed]
    /\ UNCHANGED <<executorVars, sig, job, child_tasks, no_arg_child_tasks, next_nodes,
                   parentCount, pendingCount, args, result, validResult,
                   is_output, input_nodes, q, isDone, nWaiting, threads, answer,
                   cycle, hist>>

\* thread_pool::stop: the isDone test and store.
stop_begin ==
    /\ main.pc = "stop"
    /\ IF isDone
       THEN /\ main' = [MainInit EXCEPT !.fresh = main.fresh]
            /\ answer' = Ans("execute", 0, "returned", Nil)
            /\ UNCHANGED isDone
       ELSE /\ isDone' = TRUE
            /\ main' = [main EXCEPT !.pc = "notify_all"]
            /\ UNCHANGED answer
    /\ UNCHANGED <<executorVars, nodeVars, input_nodes, q, nWaiting, threads, wk, cycle,
                   hist>>

\* stop going on to join the threads without waking the waiting ones.
stop_without_notify ==
    /\ main.pc = "notify_all"
    /\ main' = [main EXCEPT !.pc = "join", !.i = 1]
    /\ UNCHANGED <<executorVars, nodeVars, input_nodes, poolVars, answer, cycle, hist>>

\* thread_pool::stop: cv.notify_all under the mutex.
stop_notify_all ==
    /\ main.pc = "notify_all"
    /\ wk' = [w \in Workers |-> IF wk[w].pc = "waiting"
                                THEN [wk[w] EXCEPT !.pc = "woken"] ELSE wk[w]]
    /\ main' = [main EXCEPT !.pc = "join", !.i = 1]
    /\ UNCHANGED <<executorVars, nodeVars, input_nodes, q, isDone, nWaiting, threads, answer,
                   cycle, hist>>

\* thread_pool::stop: threads[i]->join() returns once thread i has ended.
stop_join ==
    /\ main.pc = "join"
    /\ main.i <= threads
    /\ wk[main.i].pc = "dead"
    /\ main' = [main EXCEPT !.i = @ + 1]
    /\ UNCHANGED <<executorVars, nodeVars, input_nodes, poolVars, answer, cycle, hist>>

\* thread_pool::stop: clear_queue, threads.clear; execute() returns.
stop_clear ==
    /\ main.pc = "join"
    /\ main.i > threads
    /\ q' = << >>
    /\ threads' = 0
    /\ main' = [MainInit EXCEPT !.fresh = main.fresh]
    /\ answer' = Ans("execute", 0, "returned", Nil)
    /\ UNCHANGED <<executorVars, nodeVars, input_nodes, isDone, nWaiting, wk, cycle, hist>>

\* ------------------------------------------------------------- workers
\* q.pop outside the mutex: at thread start and after each thunk. The
\* threads, created with the pool, take no step that wiring or a query can
\* see; they are scheduled from the first execute() on.
worker_pop(w) ==
    /\ wk[w].pc = "pop"
    /\ cycle > 0
    /\ IF q # << >>
       THEN /\ wk' = [wk EXCEPT ![w].pc = "spin", ![w].node = Head(q)]
            /\ q' = Tail(q)
       ELSE /\ wk' = [wk EXCEPT ![w].pc = "lock"]
            /\ UNCHANGED q
    /\ UNCHANGED <<executorVars, nodeVars, input_nodes, isDone, nWaiting, threads, main,
                   answer, cycle, hist>>

\* The predicate of cv.wait testing isDone before the queue.
wait_predicate_done_first(w, first) ==
    LET n0 == IF first THEN nWaiting + 1 ELSE nWaiting IN
    IF isDone
    THEN /\ wk' = [wk EXCEPT ![w].pc = "dead"]
         /\ nWaiting' = n0 - 1
         /\ UNCHANGED q
    ELSE IF q # << >>
         THEN /\ wk' = [wk EXCEPT ![w].pc = "spin", ![w].node = Head(q)]
              /\ q' = Tail(q)
              /\ nWaiting' = n0 - 1
         ELSE /\ wk' = [wk EXCEPT ![w].pc = "waiting"]
              /\ nWaiting' = n0
              /\ UNCHANGED q

\* The predicate of cv.wait taking the thunk pushed last.
wait_predicate_takes_last(w, first) ==
    LET n0 == IF first THEN nWaiting + 1 ELSE nWaiting IN
    IF q # << >>
    THEN /\ wk' = [wk EXCEPT ![w].pc = "spin", ![w].node = q[Len(q)]]
         /\ q' = [i \in 1..(Len(q) - 1) |-> q[i]]
         /\ nWaiting' = n0 - 1
    ELSE IF isDone
         THEN /\ wk' = [wk EXCEPT ![w].pc = "dead"]
              /\ nWaiting' = n0 - 1
              /\ UNCHANGED q
         ELSE /\ wk' = [wk EXCEPT ![w].pc = "waiting"]
              /\ nWaiting' = n0
              /\ UNCHANGED q

\* The predicate of cv.wait evaluated under the mutex by worker w, which
\* counts itself in nWaiting when entering (first) and out when leaving.
wait_predicate(w, first) ==
    LET n0 == IF first THEN nWaiting + 1 ELSE nWaiting IN
    IF q # << >>
    THEN /\ wk' = [wk EXCEPT ![w].pc = "spin", ![w].node = Head(q)]
         /\ q' = Tail(q)
         /\ nWaiting' = n0 - 1
    ELSE IF isDone
         THEN /\ wk' = [wk EXCEPT ![w].pc = "dead"]
              /\ nWaiting' = n0 - 1
              /\ UNCHANGED q
         ELSE /\ wk' = [wk EXCEPT ![w].pc = "waiting"]
              /\ nWaiting' = n0
              /\ UNCHANGED q

\* cv.wait entered without evaluating the predicate first.
worker_wait_unchecked(w) ==
    /\ wk[w].pc = "lock"
    /\ wk' = [wk EXCEPT ![w].pc = "waiting"]
    /\ nWaiting' = nWaiting + 1
    /\ UNCHANGED <<executorVars, nodeVars, input_nodes, q, isDone, threads, main, answer,
                   cycle, hist>>

\* The queue was empty: lock the mutex, ++nWaiting, cv.wait(lock, predicate).
worker_wait(w) ==
    /\ wk[w].pc = "lock"
    /\ wait_predicate(w, TRUE)
    /\ UNCHANGED <<executorVars, nodeVars, input_nodes, isDone, threads, main, answer,
                   cycle, hist>>

\* A notified worker re-takes the mutex and evaluates the predicate again.
worker_woken(w) ==
    /\ wk[w].pc = "woken"
    /\ wait_predicate(w, FALSE)
    /\ UNCHANGED <<executorVars, nodeVars, input_nodes, isDone, threads, main, answer,
                   cycle, hist>>

\* std::condition_variable::wait may return without a notification.
spurious_wakeup(w) ==
    /\ wk[w].pc = "waiting"
    /\ wk' = [wk EXCEPT ![w].pc = "woken"]
    /\ UNCHANGED <<executorVars, nodeVars, input_nodes, q, isDone, nWaiting, threads, main,
                   answer, cycle, hist>>

\* ------------------------------------------------------------- Node::execute
\* The thunk without its wait: the job is applied as soon as it is dequeued.
spinning_never(n) == FALSE

\* The wait ended one delivery early: while (pendingCount > 1) ;
spinning_above_one(n) == pendingCount[n] > 1

\* while (pendingCount > 0) ; on the unsigned counter.
spinning(n) == pendingCount[n] # 0

\* The thunk handing a copyable result to its first callback only.
after_callback_single_child(n, at, i) ==
    LET nv == IF sig[n].ret = "void" THEN 0
              ELSE IF Len(child_tasks[n]) > 0 THEN 1 ELSE 0
        j == IF at = "job" THEN 1 ELSE i + 1 IN
    IF at \in {"job", "child_tasks"} /\ j <= nv
    THEN [pc |-> "child_tasks", idx |-> j]
    ELSE LET k == IF at = "no_arg_child_tasks" THEN i + 1 ELSE 1 IN
         IF k <= Len(no_arg_child_tasks[n])
         THEN [pc |-> "no_arg_child_tasks", idx |-> k]
         ELSE [pc |-> "pop", idx |-> 0]

\* Where the thunk of node n goes after the job has returned (at = "job"),
\* or after callback i of the list named by at.
after_callback(n, at, i) ==
    LET nv == IF sig[n].ret = "void" THEN 0
              ELSE IF is_copy_constructible(sig[n].ret) THEN Len(child_tasks[n])
              ELSE IF Len(child_tasks[n]) > 0 THEN 1 ELSE 0
        j == IF at = "job" THEN 1 ELSE i + 1 IN
    IF at \in {"job", "child_tasks"} /\ j <= nv
    THEN [pc |-> "child_tasks", idx |-> j]
    ELSE LET k == IF at = "no_arg_child_tasks" THEN i + 1 ELSE 1 IN
         IF k <= Len(no_arg_child_tasks[n])
         THEN [pc |-> "no_arg_child_tasks", idx |-> k]
         ELSE [pc |-> "pop", idx |-> 0]

\* The thunk running its no-arg callbacks after the job has thrown.
after_throw_notifies(n) ==
    after_callback(n, "child_tasks", Len(child_tasks[n]))

\* The exception leaving the worker's thread function: the worker ends.
after_throw_ends_worker(n) == [pc |-> "dead", idx |-> 0]

\* Where the thunk of node n goes when the job throws: out of Node::execute.
after_throw(n) == [pc |-> "pop", idx |-> 0]

\* The spin loop of Node::execute ends.
node_spin_exit(w) ==
    /\ wk[w].pc = "spin"
    /\ ~spinning(wk[w].node)
    /\ wk' = [wk EXCEPT ![w].pc = "apply"]
    /\ UNCHANGED <<executorVars, nodeVars, input_nodes, q, isDone, nWaiting, threads, main,
                   answer, cycle, hist>>

\* TRUE when std::apply is given std::move(args).
moves_args(s) ==
    IF s.ret = "void" THEN \E i \in 1..Len(s.params) : s.params[i] = "uptr"
    ELSE ~is_copy_constructible(s.ret)

\* std::apply(job, args): the job starts on the argument tuple.
node_job_begin(w) ==
    /\ wk[w].pc = "apply"
    /\ LET n == wk[w].node IN
       IF ~is_copy_constructible(sig[n].ret) /\ sig[n].ret # "void"
          /\ Len(child_tasks[n]) > 1
       THEN \* DE_ENFORCE throws; the packaged_task keeps the exception
            /\ wk' = [wk EXCEPT ![w].pc = "pop", ![w].node = 0]
            /\ UNCHANGED <<args, hist>>
       ELSE /\ wk' = [wk EXCEPT ![w].pc = "job",
                                ![w].a = [s \in 1..Arity(n) |-> args[n][s]],
                                ![w].pend = pendingCount[n]]
            /\ args' = IF moves_args(sig[n])
                       THEN [args EXCEPT ![n] =
                               [s \in 1..Arity(n) |->
                                  IF sig[n].params[s] = "uptr" THEN Nil
                                  ELSE args[n][s]]]
                       ELSE args
            /\ hist' = [hist EXCEPT ![n].begun = @ + 1]
    /\ UNCHANGED <<executorVars, sig, job, child_tasks, no_arg_child_tasks, next_nodes,
                   parentCount, pendingCount, parentEnqueued, result,
                   validResult, is_output, input_nodes, q, isDone, nWaiting,
                   threads, main, answer, cycle>>

\* The job returns: _result and _validResult are stored.
node_job_end(w) ==
    /\ wk[w].pc = "job"
    /\ LET n == wk[w].node
           v == apply_job(n, wk[w].a)
           nx == after_callback(n, "job", 0) IN
       IF job[n].throws
       THEN \* the exception leaves Node::execute; the packaged_task keeps it
            /\ UNCHANGED <<result, validResult>>
            /\ hist' = [hist EXCEPT ![n].threw = @ + 1]
            /\ LET nt == after_throw(n) IN
               wk' = [wk EXCEPT ![w].pc = nt.pc, ![w].idx = nt.idx,
                                ![w].a = << >>, ![w].pend = 0,
                                ![w].node = IF nt.pc = "pop" THEN 0 ELSE n]
       ELSE /\ IF sig[n].ret = "void"
               THEN UNCHANGED <<result, validResult>>
               ELSE /\ result' = [result EXCEPT ![n] = <<v>>]
                    /\ validResult' = [validResult EXCEPT ![n] = TRUE]
            /\ hist' = [hist EXCEPT
                          ![n].ended = @ + 1, ![n].produced = <<v>>,
                          ![n].done = IF nx.pc = "pop" THEN @ + 1 ELSE @]
            /\ wk' = [wk EXCEPT ![w].pc = nx.pc, ![w].idx = nx.idx,
                                ![w].a = << >>, ![w].pend = 0,
                                ![w].node = IF nx.pc = "pop" THEN 0 ELSE n]
    /\ UNCHANGED <<executorVars, sig, job, child_tasks, no_arg_child_tasks, next_nodes,
                   parentCount, pendingCount, parentEnqueued, args, is_output,
                   input_nodes, q, isDone, nWaiting, threads, main, answer, cycle>>

\* The callback counting the argument without storing it.
on_argument_ready_no_store(child, idx, arg) ==
    /\ args' = args
    /\ pendingCount' = [pendingCount EXCEPT ![child] = @ - 1]

\* The callback storing every argument in the first slot.
on_argument_ready_first_slot(child, idx, arg) ==
    /\ args' = [args EXCEPT ![child][1] = arg]
    /\ pendingCount' = [pendingCount EXCEPT ![child] = @ - 1]

\* Node::on_argument_ready<idx>(arg) on the child.
on_argument_ready_idx(child, idx, arg) ==
    /\ args' = [args EXCEPT ![child][idx] = arg]
    /\ pendingCount' = [pendingCount EXCEPT ![child] = @ - 1]

\* child_tasks[i](...): a value-carrying callback is invoked.
node_child_task(w) ==
    /\ wk[w].pc = "child_tasks"
    /\ LET n == wk[w].node
           cb == child_tasks[n][wk[w].idx]
           nx == after_callback(n, "child_tasks", wk[w].idx) IN
       /\ on_argument_ready_idx(cb[1], cb[2], result[n][1])
       /\ IF is_copy_constructible(sig[n].ret)
          THEN UNCHANGED <<result, validResult>>
          ELSE /\ result' = [result EXCEPT ![n] = <<Nil>>]
               /\ validResult' = [validResult EXCEPT ![n] = FALSE]
       /\ hist' = [hist EXCEPT
                     ![n].done = IF nx.pc = "pop" THEN @ + 1 ELSE @,
                     ![cb[1]].got = @ \cup {<<cb[2], result[n][1]>>},
                     ![cb[1]].zeroed = IF pendingCount'[cb[1]] = 0 THEN @ + 1
                                       ELSE @]
       /\ wk' = [wk EXCEPT ![w].pc = nx.pc, ![w].idx = nx.idx,
                           ![w].node = IF nx.pc = "pop" THEN 0 ELSE n]
    /\ UNCHANGED <<executorVars, sig, job, child_tasks, no_arg_child_tasks, next_nodes,
                   parentCount, parentEnqueued, is_output, input_nodes, q,
                   isDone, nWaiting, threads, main, answer, cycle>>

\* childTask(): a no-arg callback is invoked (Node::on_argument_ready()).
node_no_arg_child_task(w) ==
    /\ wk[w].pc = "no_arg_child_tasks"
    /\ LET n == wk[w].node
           child == no_arg_child_tasks[n][wk[w].idx]
           nx == after_callback(n, "no_arg_child_tasks", wk[w].idx) IN
       /\ pendingCount' = [pendingCount EXCEPT ![child] = @ - 1]
       /\ hist' = [hist EXCEPT
                     ![n].done = IF nx.pc = "pop" THEN @ + 1 ELSE @,
                     ![child].zeroed = IF pendingCount'[child] = 0 THEN @ + 1
                                       ELSE @]
       /\ wk' = [wk EXCEPT ![w].pc = nx.pc, ![w].idx = nx.idx,
                           ![w].node = IF nx.pc = "pop" THEN 0 ELSE n]
    /\ UNCHANGED <<executorVars, sig, job, child_tasks, no_arg_child_tasks, next_nodes,
                   parentCount, parentEnqueued, args, result, validResult,
                   is_output, input_nodes, q, isDone, nWaiting, threads, main,
                   answer, cycle>>

\* ------------------------------------------------------------- feed
\* The values handed to feed.
FedValues == {<<10>>, <<20>>}

\* At most MaxFeeds feeds are made between two reset() or execute() calls,
\* they count as wiring calls, and none is made after the last execute().
FeedBudget ==
    /\ cycle < MaxCycles
    /\ SumLen([m \in Nodes |-> hist[m].fed], NumNodes) < MaxFeeds
    /\ SumLen(next_nodes, NumNodes) + Len(input_nodes)
          + SumLen([m \in Nodes |-> hist[m].fed], NumNodes) < MaxCalls

\* n.feed<idx>(v): what a parent delivering v to slot idx would do.
feed(n, idx, v) ==
    /\ main.pc = "idle"
    /\ FeedBudget
    /\ idx \in 1..Arity(n)
    /\ on_argument_ready_idx(n, idx, v)
    /\ hist' = [hist EXCEPT ![n].fed = Append(@, <<idx, v>>)]
    /\ answer' = NoAnswer
    /\ UNCHANGED <<executorVars, sig, job, child_tasks, no_arg_child_tasks, next_nodes,
                   parentCount, parentEnqueued, result, validResult, is_output,
                   input_nodes, poolVars, main, cycle>>

\* ------------------------------------------------------------- thread::Executor
\* Executor(numberOfThreads): Pool::Pool starts the threads, each at the top
\* of its loop.
InitExecutor ==
    /\ InitNodes({})
    /\ sig = [n \in Nodes |-> Signature(1, n)]
    /\ threads = 1
    /\ tasks_ = << >>
    /\ stopped_ = FALSE
    /\ \E numberOfThreads \in 1..MaxWorkers :
          threads_ = [w \in Workers |->
                        [pc |-> IF w <= numberOfThreads THEN "wait" ELSE "none",
                         task |-> 0]]
    /\ futures_ = << >>
    /\ shared_state = [t \in 1..MaxTasks |-> "none"]
    /\ callables = [t \in 1..MaxTasks |-> FALSE]
    /\ caller = [pc |-> "idle", n |-> 0, i |-> 0, last |-> "none"]

graphVars == <<nodeVars, input_nodes, poolVars, main, answer, cycle, hist>>

\* Executor::enqueue -> Pool::enqueue, up to the end of the locked block:
\* the packaged_task of a callable that throws or not is put on tasks_.
Executor_enqueue(throws) ==
    /\ caller.pc = "idle"
    /\ caller.n < MaxTasks
    /\ LET t == caller.n + 1 IN
       /\ callables' = [callables EXCEPT ![t] = throws]
       /\ shared_state' = [shared_state EXCEPT ![t] = "pending"]
       /\ tasks_' = Append(tasks_, t)
       /\ caller' = [caller EXCEPT !.pc = "notify_one", !.n = t]
    /\ UNCHANGED <<graphVars, stopped_, threads_, futures_>>

\* The threads blocked in condition_.wait.
Blocked == {w \in Workers : threads_[w].pc = "blocked"}

\* Pool::enqueue: condition_.notify_one() and return of the future, which
\* Executor::enqueue puts on futures_.
Pool_enqueue_notify ==
    /\ caller.pc = "notify_one"
    /\ \/ /\ Blocked = {}
          /\ threads_' = threads_
       \/ \E w \in Blocked : threads_' = [threads_ EXCEPT ![w].pc = "notified"]
    /\ futures_' = Append(futures_, [task |-> caller.n, valid |-> TRUE])
    /\ caller' = [caller EXCEPT !.pc = "idle", !.last = "enqueue"]
    /\ UNCHANGED <<graphVars, tasks_, stopped_, shared_state, callables>>

\* Executor::join is called.
Executor_join ==
    /\ caller.pc = "idle"
    /\ caller' = [caller EXCEPT !.pc = "join"]
    /\ UNCHANGED <<graphVars, tasks_, stopped_, threads_, futures_,
                   shared_state, callables>>

\* join: futures_.front().get(); futures_.pop(). get() blocks until the task
\* has run, rethrows what the task threw, and leaves the future without
\* shared state; get() on a future without shared state is undefined: it
\* throws std::future_error or ends the process.
Executor_join_get ==
    /\ caller.pc = "join"
    /\ futures_ # << >>
    /\ LET f == Head(futures_) IN
       IF ~f.valid
       THEN /\ \/ caller' = [caller EXCEPT !.pc = "idle", !.last = "join threw"]
               \/ caller' = [caller EXCEPT !.pc = "terminated"]
            /\ UNCHANGED futures_
       ELSE /\ shared_state[f.task] # "pending"
            /\ IF shared_state[f.task] = "exception"
               THEN /\ futures_' = [futures_ EXCEPT ![1].valid = FALSE]
                    /\ caller' = [caller EXCEPT !.pc = "idle",
                                                !.last = "join threw"]
               ELSE /\ futures_' = Tail(futures_)
                    /\ UNCHANGED caller
    /\ UNCHANGED <<graphVars, tasks_, stopped_, threads_, shared_state,
                   callables>>

\* join: futures_ is empty, the loop ends and join returns.
Executor_join_return ==
    /\ caller.pc = "join"
    /\ futures_ = << >>
    /\ caller' = [caller EXCEPT !.pc = "idle", !.last = "join returned"]
    /\ UNCHANGED <<graphVars, tasks_, stopped_, threads_, futures_,
                   shared_state, callables>>

\* The predicate of condition_.wait and what follows it, under mutex_, by
\* thread w: take the front task, or return when stopped, or block.
Pool_wait(w) ==
    IF tasks_ # << >>
    THEN /\ threads_' = [threads_ EXCEPT ![w] = [pc |-> "task",
                                                  task |-> Head(tasks_)]]
         /\ tasks_' = Tail(tasks_)
    ELSE /\ threads_' = [threads_ EXCEPT
                           ![w].pc = IF stopped_ THEN "returned" ELSE "blocked"]
         /\ UNCHANGED tasks_

\* A thread of the pool at the top of its loop.
Pool_thread_wait(w) ==
    /\ threads_[w].pc = "wait"
    /\ caller.pc # "terminated"
    /\ Pool_wait(w)
    /\ UNCHANGED <<graphVars, stopped_, futures_, shared_state, callables,
                   caller>>

\* A notified thread takes mutex_ again and evaluates the predicate.
Pool_thread_notified(w) ==
    /\ threads_[w].pc = "notified"
    /\ caller.pc # "terminated"
    /\ Pool_wait(w)
    /\ UNCHANGED <<graphVars, stopped_, futures_, shared_state, callables,
                   caller>>

\* std::condition_variable::wait may wake without a notification.
Pool_spurious_wakeup(w) ==
    /\ threads_[w].pc = "blocked"
    /\ caller.pc # "terminated"
    /\ threads_' = [threads_ EXCEPT ![w].pc = "notified"]
    /\ UNCHANGED <<graphVars, tasks_, stopped_, futures_, shared_state,
                   callables, caller>>

\* task(): the packaged_task runs the callable and makes the shared state
\* ready, with the exception when the callable throws.
Pool_thread_task(w) ==
    /\ threads_[w].pc = "task"
    /\ caller.pc # "terminated"
    /\ shared_state' = [shared_state EXCEPT ![threads_[w].task] =
                          IF callables[threads_[w].task] THEN "exception"
                          ELSE "ready"]
    /\ threads_' = [threads_ EXCEPT ![w] = [pc |-> "wait", task |-> 0]]
    /\ UNCHANGED <<graphVars, tasks_, stopped_, futures_, callables, caller>>

\* ~Executor -> ~Pool: stopped_ = true under mutex_.
Pool_destroy ==
    /\ caller.pc = "idle"
    /\ stopped_' = TRUE
    /\ caller' = [caller EXCEPT !.pc = "notify_all"]
    /\ UNCHANGED <<graphVars, tasks_, threads_, futures_, shared_state,
                   callables>>

\* ~Pool: condition_.notify_all().
Pool_destroy_notify_all ==
    /\ caller.pc = "notify_all"
    /\ threads_' = [w \in Workers |->
                      IF threads_[w].pc = "blocked"
                      THEN [threads_[w] EXCEPT !.pc = "notified"]
                      ELSE threads_[w]]
    /\ caller' = [caller EXCEPT !.pc = "join_threads", !.i = 1]
    /\ UNCHANGED <<graphVars, tasks_, stopped_, futures_, shared_state,
                   callables>>

\* ~Pool: worker.join() on each thread in turn.
Pool_destroy_join ==
    /\ caller.pc = "join_threads"
    /\ threads_[caller.i].pc = "returned"
    /\ caller' = IF caller.i < MaxWorkers /\ threads_[caller.i + 1].pc # "none"
                 THEN [caller EXCEPT !.i = @ + 1]
                 ELSE [caller EXCEPT !.pc = "destroyed"]
    /\ UNCHANGED <<graphVars, tasks_, stopped_, threads_, futures_,
                   shared_state, callables>>

\* The tasks enqueued so far that have run to their end or to their throw.
Completed == {t \in 1..caller.n : shared_state[t] \in {"ready", "exception"}}

\* ------------------------------------------------------------- the graph
Edge(p, c) == \E i \in 1..Len(next_nodes[p]) : next_nodes[p][i] = c

\* The value-carrying callbacks that write slot s of node c.
DataCallbacks(c, s) ==
    {pi \in Nodes \X (1..MaxCalls) :
        /\ pi[2] <= Len(child_tasks[pi[1]])
        /\ child_tasks[pi[1]][pi[2]] = <<c, s>>}

DataEdge(p, c, s) == \E pi \in DataCallbacks(c, s) : pi[1] = p

InputSet == {input_nodes[i] : i \in 1..Len(input_nodes)}

RECURSIVE Closure(_)
Closure(S) ==
    LET T == S \cup {c \in Nodes : \E p \in S : Edge(p, c)} IN
    IF T = S THEN S ELSE Closure(T)

\* The nodes reachable from the registered input nodes.
Reachable == Closure(InputSet)

IsRoot(n) == \A p \in Nodes : ~Edge(p, n)

RegisteredOnce ==
    \A i, j \in 1..Len(input_nodes) : input_nodes[i] = input_nodes[j] => i = j

OneParentPerSlot(c) == \A s \in 1..Arity(c) : Cardinality(DataCallbacks(c, s)) = 1

\* The use the tests make of the library: the registered input nodes are the
\* roots, each registered once; every argument slot of a node of the graph
\* has one data parent; every parent of a node of the graph is in the graph.
WellWired ==
    /\ RegisteredOnce
    /\ \A n \in InputSet : IsRoot(n)
    /\ \A c \in Reachable : OneParentPerSlot(c)
    /\ \A c \in Reachable : \A p \in Nodes : Edge(p, c) => p \in Reachable

\* execute() has returned and nothing has been called since.
JustReturned == main.pc = "idle" /\ answer.op = "execute"

\* ------------------------------------------------------------- one worker
\* The run of the first execute() on a pool of one thread, computed as a
\* whole: the thunks are taken in the order they were pushed and each runs
\* to its end before the next is taken.
RECURSIVE push_order(_, _)
\* The while loop of GraphEx::execute: the nodes in the order of pool.push.
push_order(st, order) ==
    IF st.qu = << >> THEN order
    ELSE LET nxt == Head(st.qu) IN
         push_order(scan_next_nodes([qu |-> Tail(st.qu),
                                     processed |-> st.processed, pe |-> st.pe],
                                    next_nodes[nxt], 1),
                    Append(order, nxt))

FirstPushOrder ==
    push_order(enqueue_inputs([qu |-> << >>, processed |-> {},
                               pe |-> [n \in Nodes |-> 0]], 1), << >>)

\* The nodes as construction and wiring leave them.
SeqInit ==
    [args |-> [m \in Nodes |-> [k \in 1..Arity(m) |-> Nil]],
     pend |-> parentCount,
     result |-> [m \in Nodes |-> << >>],
     valid |-> [m \in Nodes |-> FALSE],
     stuck |-> FALSE]

RECURSIVE seq_child_tasks(_, _, _, _)
\* child_tasks[i..last] of node n, each given n's result.
seq_child_tasks(s, n, i, last) ==
    IF i > last THEN s
    ELSE LET cb == child_tasks[n][i] IN
         seq_child_tasks([s EXCEPT !.args[cb[1]][cb[2]] = s.result[n][1],
                                   !.pend[cb[1]] = @ - 1],
                         n, i + 1, last)

RECURSIVE seq_no_arg_child_tasks(_, _, _)
\* for (auto childTask : no_arg_child_tasks) childTask();
seq_no_arg_child_tasks(s, n, i) ==
    IF i > Len(no_arg_child_tasks[n]) THEN s
    ELSE seq_no_arg_child_tasks(
             [s EXCEPT !.pend[no_arg_child_tasks[n][i]] = @ - 1], n, i + 1)

\* Node::execute on node n, alone on the only thread: it never leaves the
\* wait when the counter is not zero.
seq_thunk(s, n) ==
    IF s.pend[n] # 0 THEN [s EXCEPT !.stuck = TRUE]
    ELSE IF sig[n].ret = "void"
    THEN seq_no_arg_child_tasks(s, n, 1)
    ELSE IF is_copy_constructible(sig[n].ret)
    THEN LET s1 == [s EXCEPT !.result[n] = <<apply_job(n, s.args[n])>>,
                             !.valid[n] = TRUE] IN
         seq_no_arg_child_tasks(
             seq_child_tasks(s1, n, 1, Len(child_tasks[n])), n, 1)
    ELSE IF Len(child_tasks[n]) > 1 THEN s
    ELSE LET s1 == [s EXCEPT !.result[n] = <<apply_job(n, s.args[n])>>,
                             !.valid[n] = TRUE,
                             !.args[n] = [i \in 1..Arity(n) |->
                                           IF sig[n].params[i] = "uptr" THEN Nil
                                           ELSE s.args[n][i]]]
             s2 == IF Len(child_tasks[n]) = 0 THEN s1
                   ELSE [seq_child_tasks(s1, n, 1, 1) EXCEPT
                            !.result[n] = <<Nil>>, !.valid[n] = FALSE] IN
         seq_no_arg_child_tasks(s2, n, 1)

RECURSIVE seq_run(_, _, _)
seq_run(s, order, i) ==
    IF i > Len(order) \/ s.stuck THEN s
    ELSE seq_run(seq_thunk(s, order[i]), order, i + 1)

SeqFinal == seq_run(SeqInit, FirstPushOrder, 1)

\* What collect() on node n returns after the one-worker run.
seq_collect(n) == collect_on(n, SeqFinal.valid[n], SeqFinal.result[n])

\* ------------------------------------------------------------- cycles
\* The nodes reached from n along one edge or more.
StrictDescendants(n) == Closure({c \in Nodes : Edge(n, c)})

OnCycle(n) == n \in StrictDescendants(n)

\* ------------------------------------------------------------- claims
\* C1: during one execute() call the task of every node reachable from the
\* registered input nodes is run exactly once: never twice, and once by the
\* time execute() returns. Stated on the well-wired graphs, for an execute()
\* called on freshly wired or reset nodes.
C1_RunsExactlyOnce ==
    (WellWired /\ main.fresh) =>
        \A n \in Reachable :
            /\ hist[n].begun <= 1
            /\ JustReturned => hist[n].begun = 1

\* C2: when execute() returns, every node reachable from the registered input
\* nodes has finished its task and invoked all its callbacks, and no thunk
\* is left queued or running. Stated on the well-wired graphs, for an
\* execute() called on freshly wired or reset nodes.
C2_AllDoneAtReturn ==
    (WellWired /\ main.fresh /\ JustReturned) =>
        /\ \A n \in Reachable : hist[n].pushed = hist[n].done /\ hist[n].done >= 1
        /\ q = << >>
        /\ \A w \in Workers : wk[w].pc \in {"dead", "none"}

\* No argument slot of c has two data parents and no input node is
\* registered twice: c's pending counter is decremented once per edge.
CountedOnce(c) ==
    /\ RegisteredOnce
    /\ \A s \in 1..Arity(c) : Cardinality(DataCallbacks(c, s)) <= 1

\* C3 as claimed: for every edge parent -> child, the child's task has
\* started only if the parent's task has finished in this execute() cycle.
C3_ChildAfterParent ==
    \A p, c \in Nodes :
        (Edge(p, c) /\ hist[c].begun > 0) => hist[p].ended > 0

\* C3 amended: the same, for a child no slot of which has two data parents,
\* when no input node is registered twice.
C3_ChildAfterParentCountedOnce ==
    \A p, c \in Nodes :
        (CountedOnce(c) /\ Edge(p, c) /\ hist[c].begun > 0) => hist[p].ended > 0

\* A child with a data parent and an ordering-only parent has started.
C3_Witness ==
    \E c, p1, p2 \in Nodes :
        /\ CountedOnce(c) /\ hist[c].begun > 0
        /\ \E s \in Slots : DataEdge(p1, c, s)
        /\ \E i \in 1..Len(no_arg_child_tasks[p2]) : no_arg_child_tasks[p2][i] = c

\* C4 as claimed: while the task of a child runs, the value it was applied to
\* at slot s is the result each data parent of slot s produced in this cycle.
C4_SlotHoldsParentResult ==
    \A w \in Workers : wk[w].pc = "job" =>
        \A p \in Nodes : \A s \in 1..Arity(wk[w].node) :
            DataEdge(p, wk[w].node, s) => hist[p].produced = <<wk[w].a[s]>>

\* C4 amended: the same, for a child no slot of which has two data parents,
\* when no input node is registered twice.
C4_SlotHoldsParentResultCountedOnce ==
    \A w \in Workers : (wk[w].pc = "job" /\ CountedOnce(wk[w].node)) =>
        \A p \in Nodes : \A s \in 1..Arity(wk[w].node) :
            DataEdge(p, wk[w].node, s) => hist[p].produced = <<wk[w].a[s]>>

\* A task runs on the values of two data parents.
C4_Witness ==
    \E w \in Workers : \E p1, p2 \in Nodes :
        /\ wk[w].pc = "job" /\ CountedOnce(wk[w].node)
        /\ p1 # p2
        /\ DataEdge(p1, wk[w].node, 1) /\ DataEdge(p2, wk[w].node, 2)

\* C5 as claimed: at the moment the task of a node begins, its pending
\* counter is zero.
C5_PendingZeroAtStart ==
    \A w \in Workers : wk[w].pc = "job" => wk[w].pend = 0

\* C5 amended: the same, for a node no slot of which has two data parents,
\* when no input node is registered twice.
C5_PendingZeroAtStartCountedOnce ==
    \A w \in Workers :
        (wk[w].pc = "job" /\ CountedOnce(wk[w].node)) => wk[w].pend = 0

\* The task of a node with parents has begun.
C5_Witness ==
    \E w \in Workers :
        /\ wk[w].pc = "job" /\ CountedOnce(wk[w].node)
        /\ parentCount[wk[w].node] >= 2

\* C6 as claimed: on a graph in which every root is registered and every
\* argument slot has exactly one data parent, a started execute() returns,
\* for every number of workers, when the threads are scheduled fairly.
C6_ExecuteReturns ==
    ((\A n \in Nodes : IsRoot(n) => n \in InputSet)
        /\ (\A c \in Nodes : OneParentPerSlot(c))
        /\ main.pc # "idle")
    ~> (main.pc = "idle")

\* C6 amended: a started execute() returns when the registered input nodes
\* are roots, each registered once, every argument slot of a node of the
\* graph has exactly one data parent and every parent of a node of the graph
\* is in the graph.
C6_ExecuteReturnsFromRoots ==
    (WellWired /\ main.pc # "idle") ~> (main.pc = "idle")

\* The first execute() has returned from a pool of one thread that ran a
\* node with two parents.
C6_Witness ==
    /\ WellWired /\ JustReturned /\ cycle = 1
    /\ Cardinality({w \in Workers : wk[w].pc # "none"}) = 1
    /\ \E n \in Nodes : parentCount[n] >= 2 /\ hist[n].done = 1

\* C7 as claimed: when the first execute() has returned, collect() on every
\* node gives what it gives after the run on one worker, whatever the number
\* of workers and the interleaving.
C7_SameAsOneWorker ==
    (JustReturned /\ cycle = 1 /\ ~SeqFinal.stuck) =>
        \A n \in Nodes : collect_outcome(n) = seq_collect(n)

\* C7 amended: the same, when no argument slot has two data parents and no
\* input node is registered twice.
C7_SameAsOneWorkerCountedOnce ==
    (JustReturned /\ cycle = 1 /\ ~SeqFinal.stuck
        /\ \A c \in Nodes : CountedOnce(c)) =>
        \A n \in Nodes : collect_outcome(n) = seq_collect(n)

\* Two workers have run a graph in which a node computed from the values of
\* its parents.
C7_Witness ==
    /\ JustReturned /\ cycle = 1 /\ ~SeqFinal.stuck
    /\ \A c \in Nodes : CountedOnce(c)
    /\ Cardinality({w \in Workers : wk[w].pc # "none"}) = 2
    /\ \E n \in Nodes : /\ collect_outcome(n).out = "value"
                         /\ Len(collect_outcome(n).val) >= 2

\* C8: an execute() called on a well-wired graph that reset() has put back,
\* after an earlier execute(), runs every task of the graph again and leaves
\* at every node what one execute() on the fresh graph leaves.
C8_ResetRoundTrip ==
    (JustReturned /\ cycle = 2 /\ main.fresh /\ WellWired) =>
        /\ \A n \in Reachable : hist[n].ended = 1
        /\ \A n \in Nodes : collect_outcome(n) = seq_collect(n)

MoveOnlyPair(p, c) ==
    /\ sig[p].ret = "uptr"
    /\ Len(child_tasks[p]) = 1
    /\ child_tasks[p][1][1] = c

\* C10 as claimed: after an execute() of a well-wired graph in which the task
\* of a move-only parent with one value-carrying child ran, the child's task
\* was applied to the parent's value, parent.collect() fails with NoResult
\* and child.collect() succeeds.
C10_MovedToOnlyChild ==
    \A p, c \in Nodes :
        (JustReturned /\ WellWired /\ MoveOnlyPair(p, c) /\ hist[p].ended = 1) =>
            /\ hist[c].ended = 1
            /\ hist[c].produced[1][child_tasks[p][1][2] + 1] = hist[p].produced[1]
            /\ collect_outcome(p).out = "NoResult"
            /\ collect_outcome(c).out = "value"

\* C10 amended: the same, child.collect() succeeding when the child keeps its
\* result (it is copyable or has no value-carrying child) and failing with
\* NoResult when the child's own result was moved on.
C10_MovedToOnlyChildKept ==
    \A p, c \in Nodes :
        (JustReturned /\ WellWired /\ MoveOnlyPair(p, c) /\ hist[p].ended = 1) =>
            /\ hist[c].ended = 1
            /\ hist[c].produced[1][child_tasks[p][1][2] + 1] = hist[p].produced[1]
            /\ collect_outcome(p).out = "NoResult"
            /\ collect_outcome(c).out =
                   IF is_copy_constructible(sig[c].ret) \/ child_tasks[c] = << >>
                   THEN "value" ELSE "NoResult"

\* A move-only parent and its only child, which has no child, have run.
C10_Witness ==
    \E p, c \in Nodes :
        /\ JustReturned /\ WellWired /\ MoveOnlyPair(p, c)
        /\ hist[p].ended = 1 /\ hist[c].ended = 1
        /\ child_tasks[c] = << >>

\* C11: whatever set_parent, set_parent<idx> and mark_as_output calls were
\* made, a node whose result is move-only has at most one callback that
\* receives its result.
C11_MoveOnlyOneDataChild ==
    \A n \in Nodes :
        ~is_copy_constructible(sig[n].ret) => Len(child_tasks[n]) <= 1

\* A move-only node has its one data child and a second one was refused.
C11_Witness ==
    /\ answer.out = FanOutViolation
    /\ \E n \in Nodes : /\ ~is_copy_constructible(sig[n].ret)
                         /\ Len(child_tasks[n]) = 1
                         /\ Len(no_arg_child_tasks[n]) >= 1

\* C12: child.set_parent<idx>(parent) on a parent whose result is move-only
\* and that already has a callback receiving its result throws the fan-out
\* logic_error and changes nothing: the parent's callbacks and downstream
\* nodes, the child's pending counter and parent count (and every other field
\* of every node) are as before the call.
C12_FanOutRejectedUnchanged ==
    [][\A p \in Nodes :
          (~is_copy_constructible(sig[p].ret) /\ Len(child_tasks[p]) >= 1)
          => \A c \in Nodes, i \in Slots :
                set_parent_idx(c, i, p)
                => /\ answer'.out = FanOutViolation
                   /\ UNCHANGED <<nodeVars, input_nodes>>]_vars

\* A second data child was refused by a move-only parent that is not an output.
C12_Witness ==
    /\ answer.op = "set_parent"
    /\ answer.out = FanOutViolation
    /\ \E p \in Nodes : /\ ~is_copy_constructible(sig[p].ret)
                         /\ ~is_output[p]
                         /\ Len(child_tasks[p]) = 1
                         /\ Len(next_nodes[p]) = 1

\* C13: once mark_as_output() was called on a node whose result is move-only,
\* every later set_parent<idx> naming it as the parent throws the
\* marked-as-output logic_error and registers no callback and no downstream
\* node.
C13_OutputRejectsChild ==
    [][\A p \in Nodes :
          (~is_copy_constructible(sig[p].ret) /\ is_output[p])
          => \A c \in Nodes, i \in Slots :
                set_parent_idx(c, i, p)
                => /\ answer'.out = OutputConflict
                   /\ UNCHANGED <<child_tasks, next_nodes>>]_vars

\* C13, amended: the call throws and registers nothing; the error is the
\* marked-as-output one when the node has no callback receiving its result
\* yet, and the fan-out one when it was marked after such a callback was added.
C13_OutputRejectsChildEitherError ==
    [][\A p \in Nodes :
          (~is_copy_constructible(sig[p].ret) /\ is_output[p])
          => \A c \in Nodes, i \in Slots :
                set_parent_idx(c, i, p)
                => /\ answer'.out = IF child_tasks[p] = << >>
                                    THEN OutputConflict ELSE FanOutViolation
                   /\ UNCHANGED <<nodeVars, input_nodes>>]_vars

\* A data child was refused by a marked move-only node that has none.
C13_Witness ==
    /\ answer.op = "set_parent"
    /\ answer.out = OutputConflict
    /\ \E p \in Nodes : /\ ~is_copy_constructible(sig[p].ret)
                         /\ is_output[p]
                         /\ child_tasks[p] = << >>
                         /\ next_nodes[p] = << >>

\* C14: a node marked as output before execute(), whatever its result type
\* and whether it was marked before or after its children were wired, has
\* kept its result when execute() returns: collect() succeeds and returns the
\* value its task produced. Stated for the first execute() of a well-wired
\* graph and the nodes whose task ran.
C14_OutputCollects ==
    \A n \in Nodes :
        (/\ JustReturned /\ cycle = 1 /\ WellWired
         /\ is_output[n] /\ hist[n].ended >= 1)
        => IF sig[n].ret = "void"
           THEN collect_outcome(n).out = "void"
           ELSE /\ collect_outcome(n).out = "value"
                /\ collect_outcome(n).val = hist[n].produced[1]

\* C15: a node whose result is copyable keeps it through execute(), however
\* many callbacks receive it: when execute() has returned and the node's task
\* ran, collect() returns the value the task produced and every callback of
\* child_tasks was given that same value.
C15_CopyableKeptAndShared ==
    \A n \in Nodes :
        (JustReturned /\ is_copy_constructible(sig[n].ret) /\ hist[n].ended >= 1)
        => /\ collect_outcome(n).out = "value"
           /\ collect_outcome(n).val = hist[n].produced[1]
           /\ \A k \in 1..Len(child_tasks[n]) :
                 <<child_tasks[n][k][2], hist[n].produced[1]>>
                     \in hist[child_tasks[n][k][1]].got

\* execute() has returned on a copyable node that ran and has two callbacks
\* receiving its result.
C15_Witness ==
    /\ JustReturned
    /\ \E n \in Nodes : /\ is_copy_constructible(sig[n].ret)
                         /\ hist[n].ended >= 1
                         /\ Len(child_tasks[n]) >= 2
                         /\ collect_outcome(n).out = "value"

\* C16: for every node and every wiring the pending counter is never below
\* zero (the unsigned counter never wraps), and within one execute() call it
\* comes to zero once: never twice, and once for every node with parents
\* whose task ran.
C16_PendingNeverWraps ==
    \A c \in Nodes :
        /\ pendingCount[c] >= 0
        /\ hist[c].zeroed <= 1
        /\ (JustReturned /\ parentCount[c] > 0 /\ hist[c].begun >= 1)
           => hist[c].zeroed = 1

\* C16 amended: the same for a node no slot of which has two data parents,
\* when no input node is registered twice.
C16_PendingNeverWrapsCountedOnce ==
    \A c \in Nodes :
        CountedOnce(c)
        => /\ pendingCount[c] >= 0
           /\ hist[c].zeroed <= 1
           /\ (JustReturned /\ parentCount[c] > 0 /\ hist[c].begun >= 1)
              => hist[c].zeroed = 1

\* execute() has returned and a node with two parents ran: its counter came
\* down to zero in two steps.
C16_Witness ==
    /\ JustReturned
    /\ \E c \in Nodes : /\ CountedOnce(c)
                         /\ parentCount[c] = 2
                         /\ hist[c].begun = 1
                         /\ hist[c].zeroed = 1
                         /\ pendingCount[c] = 0

\* C17: collect() on a node with a non-void result, called before the first
\* execute(), throws the "No result found in node" runtime_error and leaves
\* every field of every node, the input list and the pool as they were.
C17_CollectBeforeExecute ==
    [][\A n \in Nodes :
          (cycle = 0 /\ sig[n].ret # "void" /\ collect(n))
          => /\ answer'.out = "NoResult"
             /\ UNCHANGED <<nodeVars, input_nodes, poolVars, main, cycle>>]_vars

\* collect() was refused on a wired node before any execute().
C17_Witness ==
    /\ cycle = 0
    /\ answer.op = "collect"
    /\ answer.out = "NoResult"
    /\ child_tasks[answer.node] # << >>
    /\ \E p \in Nodes : Edge(p, answer.node)

\* C18: when reset() has returned, every node (those reachable from the
\* registered input nodes and all the others wired to them) has its pending
\* counter equal to its parent count and an empty result, whatever execute()
\* did before.
C18_ResetAllNodes ==
    answer.op = "reset"
    => \A n \in Nodes : pendingCount[n] = parentCount[n] /\ result[n] = << >>

\* reset() has returned after an execute() that ran a node with a child, in
\* a graph with a wired node that no registered input node reaches.
C18_Witness ==
    /\ answer.op = "reset"
    /\ cycle >= 1
    /\ \E n \in Nodes : /\ validResult[n]
                        /\ next_nodes[n] # << >>
                        /\ parentCount[next_nodes[n][1]] > 0
    /\ \E u \in Nodes \ Reachable : next_nodes[u] # << >>

\* The callbacks of p that receive its result gave nothing to their child in
\* this execute() call (no slot has two data parents in the graphs executed
\* here).
NothingDelivered(p) ==
    \A k \in 1..Len(child_tasks[p]) :
        \A x \in hist[child_tasks[p][k][1]].got : x[1] # child_tasks[p][k][2]

FedIn(c, s) ==
    Cardinality({k \in 1..Len(hist[c].fedin) : hist[c].fedin[k][1] = s})

\* The input nodes are the roots, each registered once and each of its slots
\* fed once; every slot of every other node an input node reaches has one
\* data parent and is not fed; every parent of a node of the graph is in the
\* graph.
WellFed ==
    /\ RegisteredOnce
    /\ \A n \in InputSet : IsRoot(n)
    /\ \A c \in Reachable : \A s \in 1..Arity(c) :
          IF c \in InputSet THEN FedIn(c, s) = 1
          ELSE FedIn(c, s) = 0 /\ Cardinality(DataCallbacks(c, s)) = 1
    /\ \A c \in Reachable : \A p \in Nodes : Edge(p, c) => p \in Reachable

\* C20: feed<idx>(v) stores v in the slot and takes one off the pending
\* counter, so that a node as reset() left it has the fed value in the slot
\* and one argument less to wait for; a registered root of arity 1 that was
\* fed once runs on the fed value in execute(), and so does every node behind
\* it, in the first execute() and in an execute() that follows reset() and a
\* new feed.
C20_FeedThenExecute ==
    /\ \A n \in Nodes :
          (/\ hist[n].fed # << >> /\ cycle = 0
           /\ is_copy_constructible(sig[n].ret))
          => /\ args[n][hist[n].fed[1][1]] = hist[n].fed[1][2]
             /\ pendingCount[n] = parentCount[n] - 1
    /\ (JustReturned /\ main.fresh /\ WellFed)
       => \A n \in InputSet :
             (Arity(n) = 1 /\ Len(hist[n].fedin) = 1)
             => /\ hist[n].produced
                     = <<apply_job(n, <<hist[n].fedin[1][2]>>)>>
                /\ \A c \in Closure({n}) : hist[c].ended = 1

\* stop() on a pool with threads has joined every thread and is about to
\* clear the queue and return.
StopJoined == main.pc = "join" /\ main.i > threads /\ threads >= 1

\* C21: when stop() on a pool with at least one worker has joined its
\* threads, every thunk pushed before the call was taken from the queue and
\* run exactly once and has finished, every worker thread has ended and the
\* queue is empty.
C21_StopDrains ==
    StopJoined
    => /\ q = << >>
       /\ \A w \in 1..threads : wk[w].pc = "dead"
       /\ \A n \in Nodes : /\ hist[n].begun = hist[n].pushed
                           /\ hist[n].done + hist[n].threw = hist[n].pushed

\* stop() has joined two workers after three thunks were pushed.
C21_Witness ==
    /\ StopJoined
    /\ threads = 2
    /\ \A n \in Nodes : hist[n].pushed >= 1 /\ hist[n].done = hist[n].pushed

\* C22: the queue of the pool never holds more thunks than the queueSize the
\* pool was constructed with (a push on the full queue would wait for a
\* worker to pop).
C22_QueueWithinCapacity == Len(q) <= queueSize

\* C23: whatever execute() and reset() calls were made, no thunk is pushed
\* onto the pool once it has been stopped: when pool.push has just put a thunk
\* on the queue, isDone is not set.
C23_NoPushAfterStop == main.pc = "notify" => ~isDone

\* C24: a node's thunk is pushed onto the pool only when the node's pending
\* counter is zero: when pool.push has just put the thunk of nxt on the
\* queue, no argument of nxt is still to come.
C24_PushedWhenPendingZero ==
    main.pc = "notify" => pendingCount[main.nxt] = 0

\* C24 amended: in an execute() call begun on a graph that is as reset()
\* leaves it, with no input node registered twice, the thunk of a node
\* that is not a registered input node, and no slot of which has two data
\* parents, is pushed only after the thunk of each of its parents was pushed
\* in this execute() call; its pending counter may still be above zero then.
C24_PushedAfterParentsPushed ==
    (/\ main.pc = "notify"
     /\ main.fresh
     /\ main.nxt \notin InputSet
     /\ CountedOnce(main.nxt))
    => \A p \in Nodes : Edge(p, main.nxt) => hist[p].pushed >= 1

\* The thunk of a node with two parents has just been pushed while the node
\* still waits for an argument.
C24_Witness ==
    /\ main.pc = "notify"
    /\ main.fresh
    /\ main.nxt \notin InputSet
    /\ WellWired
    /\ Cardinality({p \in Nodes : Edge(p, main.nxt)}) = 2
    /\ pendingCount[main.nxt] > 0

\* execute() has been called and has gone through its loop over the input
\* nodes; nothing is pushed onto the pool yet.
InputsEnqueued == main.pc \in {"push", "stop"} /\ main.nxt = 0

\* The nodes execute() holds for pushing.
Enqueued == {main.qu[i] : i \in 1..Len(main.qu)}

NoArgCallbacks(c) ==
    {pi \in Nodes \X (1..MaxCalls) :
        /\ pi[2] <= Len(no_arg_child_tasks[pi[1]])
        /\ no_arg_child_tasks[pi[1]][pi[2]] = c}

\* C26: after any wiring calls and before execute(), the pending counter and
\* the parent count of each node both equal its arity plus the number of
\* set_parent(parent) calls made on it; set_parent<slot> calls, however many
\* took effect, add nothing to either.
C26_CountersAreArityPlusOrdering ==
    cycle = 0
    => \A n \in Nodes :
          /\ parentCount[n] = Arity(n) + Cardinality(NoArgCallbacks(n))
          /\ pendingCount[n] = parentCount[n]

\* Before execute(), a node of arity 2 has a data parent and an
\* ordering-only parent.
C26_Witness ==
    /\ cycle = 0
    /\ \E n \in Nodes :
          /\ Arity(n) = 2
          /\ NoArgCallbacks(n) # {}
          /\ \E s \in 1..2 : DataCallbacks(n, s) # {}

\* Callback j of child_tasks of node n has been invoked with the result of n
\* in this execute() call.
Invoked(n, j) ==
    LET cb == child_tasks[n][j] IN
    <<cb[2], hist[n].produced[1]>> \in hist[cb[1]].got

\* The workers whose thunk of node n is past the job, among its callbacks.
InCallbacks(n) ==
    {w \in Workers : /\ wk[w].node = n
                     /\ wk[w].pc \in {"child_tasks", "no_arg_child_tasks"}}

\* C27: within a thunk no downstream callback is invoked before the task has
\* finished (every thunk that is among its callbacks has ended its own job)
\* and its result is stored (and still there when the node has one thunk in
\* this call and the result has not been moved on); the value-carrying
\* callbacks are invoked in registration order (when one is about to be
\* invoked, all those registered before it have been); every no-arg callback
\* is invoked after all the value-carrying callbacks.
C27_CallbacksAfterResultInOrder ==
    \A w \in Workers :
        LET n == wk[w].node IN
        wk[w].pc \in {"child_tasks", "no_arg_child_tasks"}
        => /\ hist[n].ended = hist[n].done + Cardinality(InCallbacks(n))
           /\ (hist[n].pushed = 1 /\ sig[n].ret # "void"
               /\ (is_copy_constructible(sig[n].ret) \/ wk[w].pc = "child_tasks"))
              => (validResult[n] /\ result[n] = hist[n].produced)
           /\ \A j \in 1..Len(child_tasks[n]) :
                 (wk[w].pc = "no_arg_child_tasks" \/ j < wk[w].idx)
                 => Invoked(n, j)

\* A thunk is about to invoke a no-arg callback of a node that has two
\* value-carrying callbacks.
C27_Witness ==
    \E w \in Workers :
        /\ wk[w].pc = "no_arg_child_tasks"
        /\ Len(child_tasks[wk[w].node]) = 2

RECURSIVE Deliveries(_)
\* The number of times the callbacks of the set S (pairs of a parent and an
\* index into its child_tasks) have been invoked by thunks that have run to
\* their end in this execute() call.
Deliveries(S) ==
    IF S = {} THEN 0
    ELSE LET pi == CHOOSE x \in S : TRUE IN
         hist[pi[1]].done + Deliveries(S \ {pi})

\* The node whose slot worker w is about to write.
WritesTo(w) == child_tasks[wk[w].node][wk[w].idx][1]

\* C28: for every wiring, in one execute() cycle each argument slot of a node
\* whose task ran has been written exactly once, and no callback is about to
\* write a slot of a node whose task has started on its argument tuple.
C28_SlotWrittenOnceBeforeRead ==
    /\ \A w \in Workers :
          wk[w].pc = "child_tasks" => hist[WritesTo(w)].begun = 0
    /\ JustReturned
       => \A c \in Nodes : \A s \in 1..Arity(c) :
             hist[c].begun > 0 => Deliveries(DataCallbacks(c, s)) = 1

\* C28 amended: the same, for the nodes no slot of which has two data
\* parents, in a graph in which no input node is registered twice.
C28_SlotWrittenOnceBeforeReadCountedOnce ==
    /\ \A w \in Workers :
          (wk[w].pc = "child_tasks" /\ CountedOnce(WritesTo(w)))
          => hist[WritesTo(w)].begun = 0
    /\ JustReturned
       => \A c \in Nodes : \A s \in 1..Arity(c) :
             (hist[c].begun > 0 /\ CountedOnce(c))
             => Deliveries(DataCallbacks(c, s)) = 1

\* execute() has returned from a well-wired graph in which the task of a
\* node with two arguments, written by two different parents, has run.
C28_Witness ==
    /\ JustReturned
    /\ WellWired
    /\ \E c \in Nodes :
          /\ Arity(c) = 2
          /\ hist[c].done = 1
          /\ \E p1, p2 \in Nodes :
                p1 # p2 /\ DataEdge(p1, c, 1) /\ DataEdge(p2, c, 2)

\* C29: a thunk that throws does not terminate its worker or the pool: a
\* worker ends only after stop() has set isDone, and when stop() has joined
\* the workers after a job has thrown, every thunk that was pushed has been
\* dequeued and has run to its end or to its throw, the queue is empty.
C29_ThrowKeepsWorker ==
    /\ \A w \in Workers : wk[w].pc = "dead" => isDone
    /\ (StopJoined /\ \E n \in Nodes : hist[n].threw >= 1)
       => /\ q = << >>
          /\ \A m \in Nodes : hist[m].done + hist[m].threw = hist[m].pushed

\* On a pool of one worker the thunk of the first input node has thrown and
\* the thunk of the second, queued after it, has run to its end.
C29_Witness ==
    /\ StopJoined
    /\ threads = 1
    /\ Len(input_nodes) = 2
    /\ hist[input_nodes[1]].threw = 1
    /\ hist[input_nodes[2]].done = 1

RECURSIVE Pushes(_)
\* The number of thunks of the nodes 1..n pushed in this execute() call.
Pushes(n) == IF n = 0 THEN 0 ELSE hist[n].pushed + Pushes(n - 1)

\* C30: the pool dequeues thunks in push order, for every number of workers:
\* in the first execute() the thunks still on the queue are the last ones
\* pushed, in the order of their pushes, so that the thunks taken so far are
\* the first ones pushed and none was taken before one pushed earlier.
C30_DequeuedInPushOrder ==
    cycle = 1
    => LET k == Pushes(NumNodes) IN
       /\ k <= Len(FirstPushOrder)
       /\ Len(q) <= k
       /\ q = [i \in 1..Len(q) |-> FirstPushOrder[k - Len(q) + i]]

\* Three thunks were pushed; two workers have taken the first two and the
\* third is on the queue.
C30_Witness ==
    /\ cycle = 1
    /\ threads = 2
    /\ Pushes(NumNodes) = 3
    /\ Len(q) = 1
    /\ \A w \in Workers : wk[w].pc = "spin"

\* The nodes whose thunks are on the pool's queue.
Queued == {q[i] : i \in 1..Len(q)}

\* Every parent of node c has been pushed in this execute() call.
ParentsPushed(c) == \A p \in Nodes : Edge(p, c) => hist[p].pushed >= 1

\* C31: the order in which execute() pushes the thunks is a topological
\* order of the graph: a node is pushed only after every one of its parents
\* has been pushed, and a thunk that a worker has dequeued and that waits on
\* its pending counter waits only for thunks dequeued before it.
C31_PushOrderTopological ==
    /\ main.pc = "notify" => ParentsPushed(main.nxt)
    /\ \A w \in Workers :
          wk[w].pc = "spin"
          => /\ ParentsPushed(wk[w].node)
             /\ \A p \in Queued : ~Edge(p, wk[w].node)

\* C31 amended: the same, in an execute() call begun on a graph that is as
\* reset() leaves it, whose registered input nodes are roots, each
\* registered once, for the nodes no slot of which has two data parents.
C31_PushOrderTopologicalFromRoots ==
    (/\ main.fresh
     /\ RegisteredOnce
     /\ \A n \in InputSet : IsRoot(n))
    => /\ (main.pc = "notify" /\ CountedOnce(main.nxt))
          => ParentsPushed(main.nxt)
       /\ \A w \in Workers :
             (wk[w].pc = "spin" /\ CountedOnce(wk[w].node))
             => /\ ParentsPushed(wk[w].node)
                /\ \A p \in Queued : ~Edge(p, wk[w].node)

\* In a well-wired graph a worker has dequeued the thunk of a node with two
\* parents, which waits for an argument; both parents were dequeued before.
C31_Witness ==
    /\ main.fresh
    /\ WellWired
    /\ \E w \in Workers :
          /\ wk[w].pc = "spin"
          /\ pendingCount[wk[w].node] > 0
          /\ Cardinality({p \in Nodes : Edge(p, wk[w].node)}) = 2

\* The workers that have dequeued a thunk of node n and run it, the task not
\* yet started.
InWait(n) ==
    {w \in Workers : wk[w].node = n /\ wk[w].pc \in {"spin", "apply"}}

\* The queue is empty and every thunk pushed in this execute() call has been
\* dequeued by a worker, which runs it or has run it.
AllDequeuedAndRun ==
    /\ q = << >>
    /\ \A n \in Nodes :
          hist[n].pushed = hist[n].begun + Cardinality(InWait(n))

\* C32: no wake-up is lost: in every interleaving, thunks pushed while the
\* pool is not stopped are eventually all dequeued and run by the workers,
\* even if the caller makes no further push() and no stop().
C32_NoLostWakeup ==
    (q # << >> /\ ~isDone) ~> AllDequeuedAndRun

\* C32 amended: the same for the thunks of a well-wired graph, each of which
\* ends once its parents' thunks have ended.
C32_NoLostWakeupWellWired ==
    (WellWired /\ q # << >> /\ ~isDone) ~> AllDequeuedAndRun

\* A worker blocked in cv.wait was notified by a push and has dequeued the
\* thunk of a well-wired graph while the other thunk is still queued.
C32_Witness ==
    /\ WellWired
    /\ ~isDone
    /\ main.pc \in {"push", "notify"}
    /\ nWaiting = 1
    /\ \E w \in Workers : wk[w].pc = "spin" /\ wk[w].node = main.nxt
    /\ \E w \in Workers : wk[w].pc = "waiting"

\* C33: when reset() has returned, collect() on every node with a result
\* that reset() went through fails with NoResult, as it does just after
\* wiring: the validity flag is cleared together with the result storage.
C33_ResetClearsValidity ==
    answer.op = "reset"
    => \A n \in reset_visited :
          sig[n].ret # "void" => collect_outcome(n).out = "NoResult"

\* C34: when a call of Executor::join() has ended, every task enqueued
\* before it has completed and no future is left on futures_, whether the
\* tasks were enqueued before the first join() or after an earlier one.
C34_JoinAwaitsEveryTask ==
    (caller.pc = "idle" /\ caller.last \in {"join returned", "join threw"})
    => /\ futures_ = << >>
       /\ Completed = 1..caller.n

\* ------------------------------------------------------------- specification
\* Any wiring, any query, no execution.
NextWire ==
    \/ \E c \in Nodes, i \in Slots, p \in Nodes : set_parent_idx(c, i, p)
    \/ \E c \in Nodes, p \in Nodes : set_parent(c, p)
    \/ \E n \in Nodes : mark_as_output(n)
    \/ \E n \in Nodes : register_input_node(n)
    \/ has_cycle_call
    \/ reset
    \/ \E n \in Nodes : collect(n)

SpecWire == Init /\ [][NextWire]_vars

\* Any wiring and marking, and collect(), before anything is registered.
NextCalls ==
    \/ \E c \in Nodes, i \in Slots, p \in Nodes : set_parent_idx(c, i, p)
    \/ \E c \in Nodes, p \in Nodes : set_parent(c, p)
    \/ \E n \in Nodes : mark_as_output(n)
    \/ \E n \in Nodes : collect(n)

SpecCalls == Init /\ [][NextCalls]_vars

\* The graphs that are executed are wired parent before child: every edge
\* goes from a lower-numbered node to a higher-numbered one.
Next ==
    \/ \E c \in Nodes, i \in Slots, p \in Nodes :
          p < c /\ set_parent_idx(c, i, p)
    \/ \E c \in Nodes, p \in Nodes : p < c /\ set_parent(c, p)
    \/ \E n \in Nodes : register_input_node(n)
    \/ has_cycle_call
    \/ reset
    \/ \E n \in Nodes : collect(n)
    \/ execute_begin
    \/ execute_push
    \/ execute_notify
    \/ stop_begin
    \/ stop_notify_all
    \/ stop_join
    \/ stop_clear
    \/ \E w \in Workers : worker_pop(w)
    \/ \E w \in Workers : worker_wait(w)
    \/ \E w \in Workers : worker_woken(w)
    \/ \E w \in Workers : spurious_wakeup(w)
    \/ \E w \in Workers : node_spin_exit(w)
    \/ \E w \in Workers : node_job_begin(w)
    \/ \E w \in Workers : node_job_end(w)
    \/ \E w \in Workers : node_child_task(w)
    \/ \E w \in Workers : node_no_arg_child_task(w)

Spec == Init /\ [][Next]_vars

\* The main thread inside execute(), and worker thread w: each is one
\* sequential thread, at one place of its code at a time.
MainStep ==
    \/ execute_push
    \/ execute_notify
    \/ stop_begin
    \/ stop_notify_all
    \/ stop_join
    \/ stop_clear

WorkerStep(w) ==
    \/ worker_pop(w)
    \/ worker_wait(w)
    \/ worker_woken(w)
    \/ node_spin_exit(w)
    \/ node_job_begin(w)
    \/ node_job_end(w)
    \/ node_child_task(w)
    \/ node_no_arg_child_task(w)

\* Wiring and execution, without the queries, of the graphs in which no
\* argument slot is wired twice and no node is registered twice.
NextRun ==
    \/ \E c \in Nodes, i \in Slots, p \in Nodes :
          p < c /\ DataCallbacks(c, i) = {} /\ set_parent_idx(c, i, p)
    \/ \E c \in Nodes, p \in Nodes : p < c /\ set_parent(c, p)
    \/ \E n \in Nodes : n \notin InputSet /\ register_input_node(n)
    \/ execute_begin
    \/ MainStep
    \/ \E w \in Workers : WorkerStep(w)
    \/ \E w \in Workers : spurious_wakeup(w)

\* The same with mark_as_output.
NextOut ==
    \/ NextRun
    \/ \E n \in Nodes : mark_as_output(n)

SpecOut == Init /\ [][NextOut]_vars

\* Wiring and execution of the graphs in which one job throws.
SpecThrow == InitThrow /\ [][NextRun]_vars

\* Wiring, feed to registered nodes, reset and execution.
NextFeed ==
    \/ \E c \in Nodes, i \in Slots, p \in Nodes :
          p < c /\ DataCallbacks(c, i) = {} /\ set_parent_idx(c, i, p)
    \/ \E c \in Nodes, p \in Nodes : p < c /\ set_parent(c, p)
    \/ \E n \in Nodes : n \notin InputSet /\ register_input_node(n)
    \/ \E n \in InputSet, i \in Slots, v \in FedValues : feed(n, i, v)
    \/ cycle \in 1..(MaxCycles - 1) /\ reset
    \/ execute_begin
    \/ MainStep
    \/ \E w \in Workers : WorkerStep(w)
    \/ \E w \in Workers : spurious_wakeup(w)

SpecFeed == Init /\ [][NextFeed]_vars

\* Every thread that can take a step is scheduled in the end; a waiting
\* thread need not wake without a notification.
FairSpec ==
    /\ Init /\ [][NextRun]_vars
    /\ WF_vars(MainStep)
    /\ \A w \in Workers : WF_vars(WorkerStep(w))

\* A thread::Executor and one thread calling it.
NextExecutor ==
    \/ \E throws \in BOOLEAN : Executor_enqueue(throws)
    \/ Pool_enqueue_notify
    \/ Executor_join
    \/ Executor_join_get
    \/ Executor_join_return
    \/ \E w \in Workers : Pool_thread_wait(w)
    \/ \E w \in Workers : Pool_thread_notified(w)
    \/ \E w \in Workers : Pool_spurious_wakeup(w)
    \/ \E w \in Workers : Pool_thread_task(w)
    \/ Pool_destroy
    \/ Pool_destroy_notify_all
    \/ Pool_destroy_join

SpecExecutor == InitExecutor /\ [][NextExecutor]_vars

\* The same graphs, with a caller that finishes every pool.push it has begun
\* but may never make the next push or the stop: the worker threads are
\* scheduled fairly, and a waiting worker is not owed a spurious wake-up. The
\* nodes are those of the int family, the pool being the same for all.
SpecWorkersFair ==
    /\ InitInt /\ [][NextRun]_vars
    /\ WF_vars(execute_notify)
    /\ \A w \in Workers : WF_vars(WorkerStep(w))

====
